---- MODULE Spec2Model ----
(***************************************************************************)
(* Contract discovery, generated-module resolution, interface extraction   *)
(* and the field-element hash of crates/starknet/src/contract.rs.          *)
(*                                                                         *)
(* The compiled-program index (the SemanticGroup database) is the state    *)
(* `db`: the content of the module tree (submodules with their parent,     *)
(* name and attributes, traits, free functions), the order in which the    *)
(* index enumerates it, and the set of queries that fail.  The index       *)
(* queries are operators over that content; the functions of contract.rs   *)
(* are operators over the queries, and each call is one action.            *)
(***************************************************************************)
EXTENDS Integers, Sequences, FiniteSets, TLC

VARIABLES db, contracts, ret, first, digest

vars == <<db, contracts, ret, first, digest>>

(***************************************************************************)
(* Bounds of the model.                                                    *)
(***************************************************************************)
\* submodules of the index scanned by contract discovery
MaxSubmodules == 3
\* free functions declared in an external-functions submodule
MaxFunctions == 2

(***************************************************************************)
(* Names fixed by the plugin and by the resolver.                          *)
(***************************************************************************)
ABI_TRAIT == "__abi"
CONTRACT_ATTR == "contract"
EXTERNAL_MODULE == "__external"
GENERATED_PREFIX == "__generated__"

(***************************************************************************)
(* Identifiers.                                                            *)
(***************************************************************************)
CrateIds == {1, 2}

CrateRoot(crate_id) == [tag |-> "CrateRoot", id |-> crate_id]

Submodule(submodule_id) == [tag |-> "Submodule", id |-> submodule_id]

Trait(trait_id) == [tag |-> "Trait", id |-> trait_id]

FreeFunction(function_id) == [tag |-> "FreeFunction", id |-> function_id]

ContractDeclaration(submodule_id) == [submodule_id |-> submodule_id]

module_id(contract) == Submodule(contract.submodule_id)

(***************************************************************************)
(* Maybe<T> of an index query, Option<T>, anyhow::Result<T>.  A value is   *)
(* carried as a one-element sequence, its absence as the empty sequence.   *)
(***************************************************************************)
MaybeOk(v) == [ok |-> TRUE, val |-> <<v>>]

MaybeErr == [ok |-> FALSE, val |-> <<>>]

Ok(v) == [ok |-> TRUE, val |-> <<v>>, err |-> ""]

Bail(msg) == [ok |-> FALSE, val |-> <<>>, err |-> msg]

Value(r) == r.val[1]

\* Maybe::to_option().with_context(|| msg)?  : the error a failed query becomes
WithContext(maybe, msg) == IF maybe.ok THEN Ok(Value(maybe)) ELSE Bail(msg)

\* OrderedHashMap::get(key)
Get(items, key) == IF key \in DOMAIN items THEN <<items[key]>> ELSE <<>>

(***************************************************************************)
(* Enumeration order of the index.                                         *)
(***************************************************************************)
RECURSIVE Ascending(_)
Ascending(S) ==
    IF S = {} THEN <<>>
    ELSE LET m == CHOOSE x \in S : \A y \in S : x <= y
         IN  <<m>> \o Ascending(S \ {m})

Reverse(s) == [i \in 1..Len(s) |-> s[Len(s) + 1 - i]]

Enumerate(S, rev) == IF rev THEN Reverse(Ascending(S)) ELSE Ascending(S)

Range(s) == {s[i] : i \in 1..Len(s)}

(***************************************************************************)
(* The queries of the index.                                               *)
(***************************************************************************)
\* SubmoduleId::module: the parent module of a submodule
ParentOf(d, submodule_id) == d.parent[submodule_id]

\* SubmoduleId::name: the simple name of a submodule
NameOf(d, submodule_id) == d.name[submodule_id]

Children(d, m) == {s \in d.subs : d.parent[s] = m}

RECURSIVE CrateOf(_, _)
CrateOf(d, m) == IF m.tag = "CrateRoot" THEN m.id ELSE CrateOf(d, d.parent[m.id])

\* the modules of a crate, the root and every submodule below it; total
crate_modules(d, crate_id) ==
    LET below == {s \in d.subs : CrateOf(d, Submodule(s)) = crate_id}
        inner == Enumerate(below, d.rev_modules)
        mods  == [i \in 1..Len(inner) |-> Submodule(inner[i])]
    IN  IF d.rev_modules THEN Append(mods, CrateRoot(crate_id))
        ELSE <<CrateRoot(crate_id)>> \o mods

\* the submodules declared directly in a module; may fail
module_submodules(d, m) ==
    IF m \in d.subs_fail THEN MaybeErr
    ELSE LET inner == Enumerate(Children(d, m), d.rev_subs)
         IN  MaybeOk([i \in 1..Len(inner) |-> Submodule(inner[i])])

\* the attributes of a module; may fail
module_attributes(d, m) ==
    IF m \in d.attrs_fail THEN MaybeErr
    ELSE IF m.tag = "Submodule" THEN MaybeOk(d.attrs[m.id])
    ELSE MaybeOk(<<>>)

ItemNames(d, m) ==
    {d.name[s] : s \in Children(d, m)}
        \cup {t.name : t \in {x \in d.traits : x.module = m}}
        \cup {f.name : f \in {x \in d.functions : x.module = m}}

ItemNamed(d, m, n) ==
    IF \E s \in Children(d, m) : d.name[s] = n
    THEN Submodule(CHOOSE s \in Children(d, m) : d.name[s] = n)
    ELSE IF \E t \in d.traits : t.module = m /\ t.name = n
    THEN Trait((CHOOSE t \in d.traits : t.module = m /\ t.name = n).id)
    ELSE FreeFunction((CHOOSE f \in d.functions : f.module = m /\ f.name = n).id)

\* the items of a module by name; may fail
module_items(d, m) ==
    IF m \in d.items_fail THEN MaybeErr
    ELSE MaybeOk([n \in ItemNames(d, m) |-> ItemNamed(d, m, n)])

\* the free functions declared directly in a module; may fail
module_free_functions(d, m) ==
    IF m \in d.functions_fail THEN MaybeErr
    ELSE MaybeOk(Enumerate({f.id : f \in {x \in d.functions : x.module = m}},
                           d.rev_functions))

(***************************************************************************)
(* find_contracts                                                          *)
(***************************************************************************)
\* mutant: only the first attribute is compared with the marker
FirstIsContractAttr(attrs) == Len(attrs) > 0 /\ attrs[1] = CONTRACT_ATTR

\* attrs.iter().any(|attr| attr.id == CONTRACT_ATTR)
AnyContractAttr(attrs) == \E i \in 1..Len(attrs) : attrs[i] = CONTRACT_ATTR

\* mutant: a declaration is put in front of the ones found so far
ScanSubmoduleInFront(d, sub, acc) ==
    IF sub.tag = "Submodule"
    THEN LET attrs == module_attributes(d, sub)
         IN  IF attrs.ok /\ AnyContractAttr(Value(attrs))
             THEN <<ContractDeclaration(sub.id)>> \o acc
             ELSE acc
    ELSE acc

\* the body of the loop over the submodules of one module (module_submodules
\* lists submodules only, so the variant test passes for every index drawn)
ScanSubmodule(d, sub, acc) ==
    IF sub.tag = "Submodule"
    THEN LET attrs == module_attributes(d, sub)
         IN  IF attrs.ok /\ AnyContractAttr(Value(attrs))
             THEN Append(acc, ContractDeclaration(sub.id))
             ELSE acc
    ELSE acc

RECURSIVE ScanSubmodules(_, _, _, _)
ScanSubmodules(d, submodules, k, acc) ==
    IF k > Len(submodules) THEN acc
    ELSE ScanSubmodules(d, submodules, k + 1, ScanSubmodule(d, submodules[k], acc))

\* the body of the loop over the modules of one crate
ScanModule(d, m, acc) ==
    LET submodules == module_submodules(d, m)
    IN  IF ~submodules.ok THEN acc
        ELSE ScanSubmodules(d, Value(submodules), 1, acc)

\* mutant: a failed submodules query ends the scan of the crate (break for
\* continue)
RECURSIVE ScanModulesUntilFailure(_, _, _, _)
ScanModulesUntilFailure(d, modules, j, acc) ==
    IF j > Len(modules) THEN acc
    ELSE IF ~module_submodules(d, modules[j]).ok THEN acc
    ELSE ScanModulesUntilFailure(d, modules, j + 1, ScanModule(d, modules[j], acc))

RECURSIVE ScanModules(_, _, _, _)
ScanModules(d, modules, j, acc) ==
    IF j > Len(modules) THEN acc
    ELSE ScanModules(d, modules, j + 1, ScanModule(d, modules[j], acc))

RECURSIVE ScanCrates(_, _, _, _)
ScanCrates(d, crate_ids, i, acc) ==
    IF i > Len(crate_ids) THEN acc
    ELSE ScanCrates(d, crate_ids, i + 1,
                    ScanModules(d, crate_modules(d, crate_ids[i]), 1, acc))

find_contracts(d, crate_ids) == ScanCrates(d, crate_ids, 1, <<>>)

(***************************************************************************)
(* get_generated_contract_module, get_external_functions, get_abi.         *)
(* Each returns its Result together with the index queries it made.        *)
(***************************************************************************)
Query(name, m) == <<name, m>>

Returned(result, queries) == [ret |-> result, queries |-> queries]

\* mutant: the lookup key without the "__generated__" prefix
GeneratedModuleNameBare(contract_name) == contract_name

\* format!("__generated__{contract_name}")
GeneratedModuleName(contract_name) == GENERATED_PREFIX \o contract_name

get_generated_contract_module(d, contract) ==
    LET parent_module_id      == ParentOf(d, contract.submodule_id)
        contract_name         == NameOf(d, contract.submodule_id)
        generated_module_name == GeneratedModuleName(contract_name)
        queries               == <<Query("module_items", parent_module_id)>>
        items == WithContext(module_items(d, parent_module_id),
                             "Failed to get root module items.")
    IN  IF ~items.ok THEN Returned(items, queries)
        ELSE LET found == Get(Value(items), generated_module_name)
             IN  IF found # <<>> /\ found[1].tag = "Submodule"
                 THEN Returned(Ok(Submodule(found[1].id)), queries)
                 ELSE Returned(Bail("Failed to get generated module "
                                        \o generated_module_name \o "."),
                               queries)

\* mutant: a failed free-function query degrades to an empty list
ExternalFunctionsOrNone(d, generated_module_id, made) ==
    LET queries == Append(made, Query("module_items", generated_module_id))
        items == WithContext(module_items(d, generated_module_id),
                             "Failed to get generated module items.")
    IN  IF ~items.ok THEN Returned(items, queries)
        ELSE
        LET found == Get(Value(items), EXTERNAL_MODULE)
        IN  IF found # <<>> /\ found[1].tag = "Submodule"
            THEN LET external_module_id == Submodule(found[1].id)
                     functions == module_free_functions(d, external_module_id)
                 IN  Returned(
                       IF functions.ok THEN Ok(Value(functions)) ELSE Ok(<<>>),
                       Append(queries,
                              Query("module_free_functions", external_module_id)))
            ELSE Returned(Bail("Failed to get the entry points module."), queries)

\* the match on the items of the generated module in get_external_functions
ExternalFunctionsOf(d, generated_module_id, made) ==
    LET queries == Append(made, Query("module_items", generated_module_id))
        items == WithContext(module_items(d, generated_module_id),
                             "Failed to get generated module items.")
    IN  IF ~items.ok THEN Returned(items, queries)
        ELSE
        LET found == Get(Value(items), EXTERNAL_MODULE)
        IN  IF found # <<>> /\ found[1].tag = "Submodule"
            THEN LET external_module_id == Submodule(found[1].id)
                 IN  Returned(
                       WithContext(module_free_functions(d, external_module_id),
                                   "Failed to get module items."),
                       Append(queries,
                              Query("module_free_functions", external_module_id)))
            ELSE Returned(Bail("Failed to get the entry points module."), queries)

get_external_functions(d, contract) ==
    LET generated == get_generated_contract_module(d, contract)
    IN  IF ~generated.ret.ok THEN generated
        ELSE ExternalFunctionsOf(d, Value(generated.ret), generated.queries)

\* mutant: whatever is filed under the ABI-trait name is taken for the trait
AbiOfAnyKind(d, generated_module_id, made) ==
    LET queries == Append(made, Query("module_items", generated_module_id))
        items == WithContext(module_items(d, generated_module_id),
                             "Failed to get generated module items.")
    IN  IF ~items.ok THEN Returned(items, queries)
        ELSE
        LET found == Get(Value(items), ABI_TRAIT)
        IN  IF found # <<>>
            THEN Returned(Ok(found[1].id), queries)
            ELSE Returned(Bail("Failed to get the ABI trait."), queries)

\* mutant: the ABI lookup also insists on the external-functions submodule
AbiOfWithExternal(d, generated_module_id, made) ==
    LET queries == Append(made, Query("module_items", generated_module_id))
        items == WithContext(module_items(d, generated_module_id),
                             "Failed to get generated module items.")
    IN  IF ~items.ok THEN Returned(items, queries)
        ELSE
        LET found == Get(Value(items), ABI_TRAIT)
            external == Get(Value(items), EXTERNAL_MODULE)
        IN  IF external = <<>>
            THEN Returned(Bail("Failed to get the entry points module."), queries)
            ELSE IF found # <<>> /\ found[1].tag = "Trait"
            THEN Returned(Ok(found[1].id), queries)
            ELSE Returned(Bail("Failed to get the ABI trait."), queries)

\* the match on the items of the generated module in get_abi
AbiOf(d, generated_module_id, made) ==
    LET queries == Append(made, Query("module_items", generated_module_id))
        items == WithContext(module_items(d, generated_module_id),
                             "Failed to get generated module items.")
    IN  IF ~items.ok THEN Returned(items, queries)
        ELSE
        LET found == Get(Value(items), ABI_TRAIT)
        IN  IF found # <<>> /\ found[1].tag = "Trait"
            THEN Returned(Ok(found[1].id), queries)
            ELSE Returned(Bail("Failed to get the ABI trait."), queries)

\* mutant: a resolver failure is swallowed and the parent module is searched
get_abi_in_parent(d, contract) ==
    LET generated == get_generated_contract_module(d, contract)
    IN  IF ~generated.ret.ok
        THEN AbiOf(d, ParentOf(d, contract.submodule_id), generated.queries)
        ELSE AbiOf(d, Value(generated.ret), generated.queries)

get_abi(d, contract) ==
    LET generated == get_generated_contract_module(d, contract)
    IN  IF ~generated.ret.ok THEN generated
        ELSE AbiOf(d, Value(generated.ret), generated.queries)

\* mutant: a call consumes the traits of the index
SharedRefTakingTraits(d) == [d EXCEPT !.traits = {}]

\* the index is held by shared reference: a call leaves it as it found it
SharedRef(d) == d

(***************************************************************************)
(* starknet_keccak.  Keccak256 (crate sha3) is outside the repository: the *)
(* 32-byte array that hasher.finalize() returns is the input `digest`.     *)
(* A BigUint is its big-endian base-256 digits without leading zeros.      *)
(***************************************************************************)
\* bytes of a Keccak-256 digest
DigestLen == 32
\* bits the result is truncated to
FieldBits == 250

RECURSIVE BitAnd(_, _)
BitAnd(a, b) ==
    IF a = 0 \/ b = 0 THEN 0
    ELSE (a % 2) * (b % 2) + 2 * BitAnd(a \div 2, b \div 2)

\* mutant: the mask keeps three bits of the first byte
MaskFirstWith7(result) == [result EXCEPT ![1] = BitAnd(result[1], 7)]

\* *result.first_mut().unwrap() &= 3
MaskFirst(result) == [result EXCEPT ![1] = BitAnd(result[1], 3)]

RECURSIVE from_bytes_be(_)
from_bytes_be(bytes) ==
    IF bytes = <<>> THEN <<>>
    ELSE IF bytes[1] = 0 THEN from_bytes_be(Tail(bytes))
    ELSE bytes

starknet_keccak(result) == from_bytes_be(MaskFirst(result))

(***************************************************************************)
(* Calls.  `contracts` is the discovery result the caller holds, `ret` the *)
(* last call with its outcome (and, for an extraction, whether the same    *)
(* call was made before), `first` the first outcome of every extraction    *)
(* call made so far.                                                       *)
(***************************************************************************)
CrateIdLists == {<<>>, <<1>>, <<2>>, <<1, 2>>, <<2, 1>>, <<1, 1>>}

NoCall == [op |-> "none"]

Declarations == Range(contracts)

Called(op, contract) == \E e \in first : e.op = op /\ e.contract = contract

Remember(op, contract, out) ==
    IF Called(op, contract) THEN first
    ELSE first \cup {[op |-> op, contract |-> contract, out |-> out]}

FindContracts(crate_ids) ==
    /\ contracts' = find_contracts(db, crate_ids)
    /\ ret' = [op |-> "find_contracts", crate_ids |-> crate_ids,
               out |-> contracts']
    /\ db' = SharedRef(db)
    /\ UNCHANGED <<first, digest>>

GetGeneratedContractModule(contract) ==
    /\ ret' = [op |-> "get_generated_contract_module", contract |-> contract,
               out |-> get_generated_contract_module(db, contract)]
    /\ db' = SharedRef(db)
    /\ UNCHANGED <<contracts, first, digest>>

GetExternalFunctions(contract) ==
    LET out == get_external_functions(db, contract)
    IN  /\ ret' = [op |-> "get_external_functions", contract |-> contract,
                   out |-> out,
                   repeated |-> Called("get_external_functions", contract)]
        /\ first' = Remember("get_external_functions", contract, out)
        /\ db' = SharedRef(db)
        /\ UNCHANGED <<contracts, digest>>

GetAbi(contract) ==
    LET out == get_abi(db, contract)
    IN  /\ ret' = [op |-> "get_abi", contract |-> contract, out |-> out,
                   repeated |-> Called("get_abi", contract)]
        /\ first' = Remember("get_abi", contract, out)
        /\ db' = SharedRef(db)
        /\ UNCHANGED <<contracts, digest>>

StarknetKeccak ==
    /\ ret.op = "input"
    /\ ret' = [op |-> "starknet_keccak", out |-> starknet_keccak(digest)]
    /\ UNCHANGED <<db, contracts, first, digest>>

(***************************************************************************)
(* Indexes.                                                                *)
(***************************************************************************)
Index(subs, parent, name, attrs, traits, functions) ==
    [subs |-> subs, parent |-> parent, name |-> name, attrs |-> attrs,
     traits |-> traits, functions |-> functions,
     subs_fail |-> {}, attrs_fail |-> {}, items_fail |-> {},
     functions_fail |-> {},
     rev_modules |-> FALSE, rev_subs |-> FALSE, rev_functions |-> FALSE]

EmptyIndex == Index({}, <<>>, <<>>, <<>>, {}, {})

\* Indexes for discovery: MaxSubmodules submodules spread over two crates,
\* the first below the root of crate 1, each other one below a crate root or
\* below the submodule before it; at most one failing submodules query and
\* at most one failing attributes query.
ScannedSubmodules == 1..MaxSubmodules

ParentChoices(s) ==
    IF s = 1 THEN {CrateRoot(1)}
    ELSE {CrateRoot(c) : c \in CrateIds} \cup {Submodule(s - 1)}

Parents == {p \in [ScannedSubmodules -> {CrateRoot(c) : c \in CrateIds}
                        \cup {Submodule(s) : s \in ScannedSubmodules}] :
               \A s \in ScannedSubmodules : p[s] \in ParentChoices(s)}

AttributeLists == {<<"test">>, <<"test", CONTRACT_ATTR>>}

AtMostOne(S) == {{}} \cup {{x} : x \in S}

InitFind ==
    /\ \E parent \in Parents,
          attrs \in [ScannedSubmodules -> AttributeLists],
          attrs_fail \in AtMostOne({Submodule(1), Submodule(MaxSubmodules)}),
          subs_fail \in AtMostOne({CrateRoot(1), Submodule(1)}),
          rev_modules \in BOOLEAN, rev_subs \in BOOLEAN :
          db = [Index(ScannedSubmodules, parent,
                      [s \in ScannedSubmodules |-> "m" \o ToString(s)],
                      attrs, {}, {})
                  EXCEPT !.attrs_fail = attrs_fail, !.subs_fail = subs_fail,
                         !.rev_modules = rev_modules, !.rev_subs = rev_subs]
    /\ contracts = <<>>
    /\ ret = NoCall
    /\ first = {}
    /\ digest = <<>>

NextFind == \E crate_ids \in CrateIdLists : FindContracts(crate_ids)

SpecFind == InitFind /\ [][NextFind]_vars

\* Indexes for extraction.  Crate 1 holds contract "a" (submodule 1) in its
\* root and contract "b" (submodule 5) in the plain module "m" (submodule 4).
\* What is filed under "__generated__a" in the root, and under the ABI-trait
\* and external-functions names in that generated module (submodule 2), is
\* drawn from ItemKinds; so are the free functions of the external-functions
\* submodule (submodule 3), whether "b" has its generated module (submodules
\* 6 and 7), and the queries that fail.
ItemKinds == {"absent", "Submodule", "Trait", "FreeFunction"}

If(cond, S) == IF cond THEN S ELSE {}

ExtractParent ==
    <<CrateRoot(1), CrateRoot(1), Submodule(2), CrateRoot(1), Submodule(4),
      Submodule(4), Submodule(6), Submodule(2)>>

ExtractName ==
    <<"a", GENERATED_PREFIX \o "a", EXTERNAL_MODULE, "m", "b",
      GENERATED_PREFIX \o "b", EXTERNAL_MODULE, ABI_TRAIT>>

ExtractAttrs ==
    <<<<CONTRACT_ATTR>>, <<>>, <<>>, <<"test">>, <<"test", CONTRACT_ATTR>>,
      <<>>, <<>>, <<>>>>

Item(id, m, name) == [id |-> id, module |-> m, name |-> name]

ExtractIndex(gaKind, abiKind, extKind, nfun, gbKind) ==
    LET subs == {1, 4, 5} \cup If(gaKind = "Submodule", {2})
                    \cup If(extKind = "Submodule", {3})
                    \cup If(abiKind = "Submodule", {8})
                    \cup If(gbKind = "Submodule", {6, 7})
        traits ==
            If(gaKind = "Trait", {Item(2, CrateRoot(1), GENERATED_PREFIX \o "a")})
              \cup If(abiKind = "Trait", {Item(1, Submodule(2), ABI_TRAIT)})
              \cup If(extKind = "Trait", {Item(3, Submodule(2), EXTERNAL_MODULE)})
              \cup If(gbKind = "Submodule", {Item(4, Submodule(6), ABI_TRAIT)})
        functions ==
            If(gaKind = "FreeFunction",
               {Item(10, CrateRoot(1), GENERATED_PREFIX \o "a")})
              \cup If(abiKind = "FreeFunction", {Item(11, Submodule(2), ABI_TRAIT)})
              \cup If(extKind = "FreeFunction",
                      {Item(12, Submodule(2), EXTERNAL_MODULE)})
              \cup If(extKind = "Submodule",
                      {Item(i, Submodule(3), "f" \o ToString(i)) : i \in 1..nfun})
              \cup If(gbKind = "Submodule", {Item(13, Submodule(7), "g")})
    IN  Index(subs, [s \in subs |-> ExtractParent[s]],
              [s \in subs |-> ExtractName[s]], [s \in subs |-> ExtractAttrs[s]],
              traits, functions)

Modules(d) == {CrateRoot(c) : c \in CrateIds} \cup {Submodule(s) : s \in d.subs}

Init ==
    /\ \E gaKind \in ItemKinds, abiKind \in ItemKinds, extKind \in ItemKinds,
          nfun \in 0..MaxFunctions, gbKind \in {"absent", "Submodule"},
          rev_functions \in BOOLEAN :
          /\ gaKind # "Submodule" => abiKind = "absent" /\ extKind = "absent"
          /\ extKind # "Submodule" => nfun = 0
          /\ nfun < 2 => ~rev_functions
          /\ LET d == ExtractIndex(gaKind, abiKind, extKind, nfun, gbKind)
             IN  \E items_fail \in AtMostOne(Modules(d) \cap {CrateRoot(1), Submodule(2),
                                                           Submodule(4)}),
                    functions_fail \in AtMostOne(Modules(d) \cap {Submodule(3)}) :
                    db = [d EXCEPT !.items_fail = items_fail,
                                   !.functions_fail = functions_fail,
                                   !.rev_functions = rev_functions]
    /\ contracts = <<>>
    /\ ret = NoCall
    /\ first = {}
    /\ digest = <<>>

Next ==
    \/ \E crate_ids \in {<<1>>, <<2, 1>>} : FindContracts(crate_ids)
    \/ \E contract \in Declarations : GetGeneratedContractModule(contract)
    \/ \E contract \in Declarations : GetExternalFunctions(contract)
    \/ \E contract \in Declarations : GetAbi(contract)

Spec == Init /\ [][Next]_vars

\* Digests for the hash: every first byte, with the other bytes drawn from a
\* few patterns, and the Keccak-256 digest of the empty input.
Digest(b0, b1, fill, last) ==
    [i \in 1..DigestLen |->
        IF i = 1 THEN b0 ELSE IF i = 2 THEN b1
        ELSE IF i = DigestLen THEN last ELSE fill]

KeccakOfEmpty ==
    <<197, 210, 70, 1, 134, 247, 35, 60, 146, 126, 125, 178, 220, 199, 3, 192,
      229, 0, 182, 83, 202, 130, 39, 59, 123, 250, 216, 4, 93, 133, 164, 112>>

Digests ==
    {Digest(b0, b1, fill, last) :
        b0 \in 0..255, b1 \in {0, 255}, fill \in {0, 170}, last \in {0, 1}}
      \cup {KeccakOfEmpty}

InitHash ==
    /\ digest \in Digests
    /\ ret = [op |-> "input"]
    /\ db = EmptyIndex
    /\ contracts = <<>>
    /\ first = {}

NextHash == StarknetKeccak

SpecHash == InitHash /\ [][NextHash]_vars

(***************************************************************************)
(* Claims about find_contracts (SpecFind).                                 *)
(***************************************************************************)
Found == ret.op = "find_contracts"

CarriesMarker(attrs) == "contract" \in Range(attrs)

Referenced(out) == {out[p].submodule_id : p \in 1..Len(out)}

NoDuplicates(seq) == \A p, q \in 1..Len(seq) : p # q => seq[p] # seq[q]

\* the submodules of a compilation unit that carry the marker attribute
Marked(d, crate_id) ==
    {s \in d.subs : CrateOf(d, Submodule(s)) = crate_id /\ CarriesMarker(d.attrs[s])}

\* those among them the index can enumerate and describe
Resolved(d, crate_id) ==
    {s \in Marked(d, crate_id) :
        /\ module_submodules(d, ParentOf(d, s)).ok
        /\ module_attributes(d, Submodule(s)).ok}

\* C1 as stated: scanning one compilation unit with N marked submodules
\* returns exactly N declarations, all distinct, each of a marked submodule
\* of the index.
C1_ExactlyTheMarked ==
    (Found /\ Len(ret.crate_ids) = 1) =>
        /\ Len(ret.out) = Cardinality(Marked(db, ret.crate_ids[1]))
        /\ Referenced(ret.out) \subseteq Marked(db, ret.crate_ids[1])
        /\ NoDuplicates(ret.out)

\* C1 amended: scanning one compilation unit returns exactly one declaration
\* for each marked submodule whose own attributes query and whose parent's
\* submodules query succeed, all distinct, and none of an unmarked submodule.
C1_ExactlyTheResolvedMarked ==
    (Found /\ Len(ret.crate_ids) = 1) =>
        /\ Len(ret.out) = Cardinality(Resolved(db, ret.crate_ids[1]))
        /\ Referenced(ret.out) = Resolved(db, ret.crate_ids[1])
        /\ Referenced(ret.out) \subseteq db.subs
        /\ NoDuplicates(ret.out)

C1_Witness ==
    /\ Found /\ Len(ret.crate_ids) = 1
    /\ Len(ret.out) >= 1
    /\ Resolved(db, ret.crate_ids[1]) # Marked(db, ret.crate_ids[1])
    /\ \E s \in db.subs : CrateOf(db, Submodule(s)) = ret.crate_ids[1]
                            /\ ~CarriesMarker(db.attrs[s])

\* the places <<i, j, k>> of the scan that emit a declaration: unit i of
\* crate_ids, module j of that unit, submodule k of that module
SubmodulesAt(d, crate_ids, i, j) ==
    module_submodules(d, crate_modules(d, crate_ids[i])[j])

Emitting(d, sub) ==
    /\ sub.tag = "Submodule"
    /\ module_attributes(d, sub).ok
    /\ CarriesMarker(Value(module_attributes(d, sub)))

Places(d, crate_ids) ==
    UNION {UNION {{<<i, j, k>> :
                     k \in {k \in 1..Len(Value(SubmodulesAt(d, crate_ids, i, j))) :
                              Emitting(d, Value(SubmodulesAt(d, crate_ids, i, j))[k])}} :
                  j \in {j \in 1..Len(crate_modules(d, crate_ids[i])) :
                           SubmodulesAt(d, crate_ids, i, j).ok}} :
           i \in 1..Len(crate_ids)}

Before(a, b) ==
    \/ a[1] < b[1]
    \/ a[1] = b[1] /\ a[2] < b[2]
    \/ a[1] = b[1] /\ a[2] = b[2] /\ a[3] < b[3]

Rank(P, a) == 1 + Cardinality({b \in P : Before(b, a)})

\* C2: the declarations are in scan order: units in the order given, the
\* modules of a unit in crate_modules order, the submodules of a module in
\* module_submodules order.
C2_ScanOrder ==
    Found =>
        LET P == Places(db, ret.crate_ids)
        IN  /\ Len(ret.out) = Cardinality(P)
            /\ \A a \in P :
                 ret.out[Rank(P, a)] =
                   ContractDeclaration(
                     Value(SubmodulesAt(db, ret.crate_ids, a[1], a[2]))[a[3]].id)

C2_Witness ==
    /\ Found
    /\ Len(ret.crate_ids) = 2 /\ ret.crate_ids[1] # ret.crate_ids[2]
    /\ \E a, b, c \in Places(db, ret.crate_ids) :
          a[1] < b[1] /\ b[1] = c[1] /\ Before(b, c)
    /\ \E p, q \in 1..Len(ret.out) :
          p < q /\ ret.out[p].submodule_id > ret.out[q].submodule_id

Repaired(d) == [d EXCEPT !.subs_fail = {}, !.attrs_fail = {}]

Skipped(d, contract) ==
    \/ ParentOf(d, contract.submodule_id) \in d.subs_fail
    \/ Submodule(contract.submodule_id) \in d.attrs_fail

\* C3: a failing query removes from the result exactly the submodules of the
\* module whose submodules query failed and the submodule whose attributes
\* query failed: the result is the result over the same index with no query
\* failing, less those declarations, in the same order.
C3_SkipsOnlyTheFailed ==
    Found =>
        LET Kept(contract) == ~Skipped(db, contract)
        IN  ret.out = SelectSeq(find_contracts(Repaired(db), ret.crate_ids), Kept)

C3_Witness ==
    /\ Found
    /\ NoDuplicates(ret.crate_ids)
    /\ db.subs_fail # {} /\ db.attrs_fail # {}
    /\ \E p, q \in 1..Len(find_contracts(Repaired(db), ret.crate_ids)) :
          /\ p < q
          /\ Skipped(db, find_contracts(Repaired(db), ret.crate_ids)[p])
          /\ ~Skipped(db, find_contracts(Repaired(db), ret.crate_ids)[q])
    /\ Len(ret.out) >= 1

(***************************************************************************)
(* Claims about the resolver and the extractor (Spec).                     *)
(***************************************************************************)
\* what the index holds for a declaration, read off the index itself
ExpectedKey(d, contract) == "__generated__" \o d.name[contract.submodule_id]

ParentItems(d, contract) == module_items(d, d.parent[contract.submodule_id])

HasKind(items, key, kind) == key \in DOMAIN items /\ items[key].tag = kind

\* the parent's items resolve and file a submodule under the expected key
Resolves(d, contract) ==
    /\ ParentItems(d, contract).ok
    /\ HasKind(Value(ParentItems(d, contract)), ExpectedKey(d, contract), "Submodule")

GeneratedModule(d, contract) ==
    Submodule(Value(ParentItems(d, contract))[ExpectedKey(d, contract)].id)

GeneratedItems(d, contract) == module_items(d, GeneratedModule(d, contract))

NotFoundError(key) == "Failed to get generated module " \o key \o "."

Resolved4 == ret.op = "get_generated_contract_module"

\* C4 as stated: the resolver returns the submodule filed under
\* "__generated__" + name in the parent when there is one, and in every other
\* outcome fails with the generated-module-not-found error carrying that key.
C4_FailsWithTheKey ==
    Resolved4 =>
        IF Resolves(db, ret.contract)
        THEN ret.out.ret = Ok(GeneratedModule(db, ret.contract))
        ELSE /\ ~ret.out.ret.ok
             /\ ret.out.ret.err = NotFoundError(ExpectedKey(db, ret.contract))

\* C4 amended: as stated when the key is missing or filed as a non-submodule
\* item; when the parent's items do not resolve the error is "Failed to get
\* root module items." and does not carry the key.
C4_FailsWithTheKeyOrRootItems ==
    Resolved4 =>
        IF Resolves(db, ret.contract)
        THEN ret.out.ret = Ok(GeneratedModule(db, ret.contract))
        ELSE /\ ~ret.out.ret.ok
             /\ ret.out.ret.val = <<>>
             /\ ret.out.ret.err =
                  IF ParentItems(db, ret.contract).ok
                  THEN NotFoundError(ExpectedKey(db, ret.contract))
                  ELSE "Failed to get root module items."

C4_Witness ==
    /\ Resolved4
    /\ ret.contract.submodule_id = 5
    /\ ParentItems(db, ret.contract).ok
    /\ ~Resolves(db, ret.contract)
    /\ ret.out.ret.err = "Failed to get generated module __generated__b."
    /\ \E other \in Declarations :
          ParentItems(db, other).ok /\ ~Resolves(db, other)
            /\ ExpectedKey(db, other) \in DOMAIN Value(ParentItems(db, other))

ExtractedFunctions == ret.op = "get_external_functions"

ExternalResolves(d, contract) ==
    /\ Resolves(d, contract)
    /\ GeneratedItems(d, contract).ok
    /\ HasKind(Value(GeneratedItems(d, contract)), EXTERNAL_MODULE, "Submodule")

ExternalModule(d, contract) ==
    Submodule(Value(GeneratedItems(d, contract))[EXTERNAL_MODULE].id)

\* C5: get_external_functions succeeds exactly when the generated module
\* resolves, its items resolve, the external-functions name is filed as a
\* submodule and the free-function query on it succeeds, and then returns
\* that submodule's free functions in the index's order; otherwise it
\* returns an error and no list.
C5_ExternalFunctions ==
    ExtractedFunctions =>
        IF /\ ExternalResolves(db, ret.contract)
           /\ module_free_functions(db, ExternalModule(db, ret.contract)).ok
        THEN /\ ret.out.ret.ok
             /\ Value(ret.out.ret) =
                  Value(module_free_functions(db, ExternalModule(db, ret.contract)))
        ELSE ~ret.out.ret.ok /\ ret.out.ret.val = <<>> /\ ret.out.ret.err # ""

C5_Witness ==
    /\ ExtractedFunctions
    /\ ret.out.ret.ok
    /\ Len(Value(ret.out.ret)) >= 2
    /\ Value(ret.out.ret)[1] > Value(ret.out.ret)[2]
    /\ \E e \in first : e.op = "get_external_functions" /\ ~e.out.ret.ok

ExtractedAbi == ret.op = "get_abi"

\* C6: get_abi succeeds exactly when the generated module resolves, its
\* items resolve and the ABI-trait name is filed as a trait, and then returns
\* that trait; otherwise it returns an error and no trait.
C6_Abi ==
    ExtractedAbi =>
        IF /\ Resolves(db, ret.contract)
           /\ GeneratedItems(db, ret.contract).ok
           /\ HasKind(Value(GeneratedItems(db, ret.contract)), ABI_TRAIT, "Trait")
        THEN ret.out.ret = Ok(Value(GeneratedItems(db, ret.contract))[ABI_TRAIT].id)
        ELSE ~ret.out.ret.ok /\ ret.out.ret.val = <<>> /\ ret.out.ret.err # ""

C6_Witness ==
    /\ ExtractedAbi
    /\ Resolves(db, ret.contract)
    /\ GeneratedItems(db, ret.contract).ok
    /\ HasKind(Value(GeneratedItems(db, ret.contract)), ABI_TRAIT, "Submodule")
    /\ ~ret.out.ret.ok
    /\ \E e \in first : e.op = "get_abi" /\ e.out.ret = Ok(4)

FirstOf(op, contract) ==
    (CHOOSE e \in first : e.op = op /\ e.contract = contract).out

BothCalled(contract) ==
    Called("get_abi", contract) /\ Called("get_external_functions", contract)

\* C7: with the external-functions submodule present and the ABI-trait name
\* absent, get_abi fails and get_external_functions on the same declaration
\* succeeds with the free functions; with the ABI trait present and the
\* external-functions name absent, get_abi succeeds.
C7_IndependentFailures ==
    \A contract \in Declarations :
        (BothCalled(contract) /\ Resolves(db, contract)
            /\ GeneratedItems(db, contract).ok) =>
        LET items == Value(GeneratedItems(db, contract))
        IN  /\ (/\ ABI_TRAIT \notin DOMAIN items
                /\ HasKind(items, EXTERNAL_MODULE, "Submodule")
                /\ module_free_functions(db, ExternalModule(db, contract)).ok) =>
                  /\ ~FirstOf("get_abi", contract).ret.ok
                  /\ FirstOf("get_external_functions", contract).ret =
                       Ok(Value(module_free_functions(db, ExternalModule(db, contract))))
            /\ (/\ EXTERNAL_MODULE \notin DOMAIN items
                /\ HasKind(items, ABI_TRAIT, "Trait")) =>
                  FirstOf("get_abi", contract).ret = Ok(items[ABI_TRAIT].id)

C7_Witness ==
    /\ ExtractedFunctions /\ ret.contract.submodule_id = 1 /\ BothCalled(ret.contract)
    /\ Resolves(db, ret.contract) /\ GeneratedItems(db, ret.contract).ok
    /\ ABI_TRAIT \notin DOMAIN Value(GeneratedItems(db, ret.contract))
    /\ ret.out.ret.ok /\ Len(Value(ret.out.ret)) >= 1
    /\ ~FirstOf("get_abi", ret.contract).ret.ok

\* the outcome of a repeated extraction call is the outcome of the first call
\* of that operation on that declaration
RepeatsFirst ==
    ((ExtractedFunctions \/ ExtractedAbi) /\ ret.repeated) =>
        ret.out = FirstOf(ret.op, ret.contract)

Hashed == ret.op = "starknet_keccak"

ByteBits(b) == [i \in 1..8 |-> (b \div 2 ^ (8 - i)) % 2]

\* the bits of a byte string, most significant first
Bits(bytes) ==
    [i \in 1..8 * Len(bytes) |-> ByteBits(bytes[((i - 1) \div 8) + 1])[((i - 1) % 8) + 1]]

\* a BigUint written on DigestLen bytes
Padded(n) ==
    [i \in 1..DigestLen |->
        IF i <= DigestLen - Len(n) THEN 0 ELSE n[i - (DigestLen - Len(n))]]

BitLength(n) ==
    IF n = <<>> THEN 0
    ELSE 8 * (Len(n) - 1) + (CHOOSE k \in 1..8 : 2 ^ (k - 1) <= n[1] /\ n[1] < 2 ^ k)

\* C9: the result is the big-endian integer of the digest with the top six
\* bits of its first byte cleared and the other 31 bytes untouched, which is
\* the digest modulo 2^250, and is below 2^250.
C9_TruncatedTo250Bits ==
    Hashed =>
        LET out == ret.out
            digestBits == Bits(digest)
            outBits == Bits(Padded(out))
        IN  /\ Len(out) <= DigestLen
            /\ out # <<>> => out[1] # 0
            /\ \A i \in 2..DigestLen : Padded(out)[i] = digest[i]
            /\ Padded(out)[1] = digest[1] % 4
            /\ \A i \in 1..8 * DigestLen :
                 outBits[i] = IF i <= 8 * DigestLen - FieldBits THEN 0
                              ELSE digestBits[i]
            /\ BitLength(out) <= FieldBits

C9_Witness ==
    /\ Hashed
    /\ digest = KeccakOfEmpty
    /\ Len(ret.out) = DigestLen
    /\ ret.out[1] = 1 /\ ret.out[2] = 210
    /\ BitLength(ret.out) = 249

====
